---- MODULE Spec2Model ----
(***************************************************************************)
(* ClusterMind clustering engine (utils/clustering.ts): multi-restart      *)
(* K-Means runner, repair pass, WCSS / Davies-Bouldin metrics and the      *)
(* elbow sweeps.                                                           *)
(*                                                                         *)
(* Numbers.  JavaScript doubles are modelled as fixed-point integers in    *)
(* units of 1/Scale; Scale is a multiple of every cluster size the model   *)
(* reaches, so every mean the code computes is exact.  Squared distances   *)
(* (WCSS) are in units of 1/Scale^2.  DBI values and the random factors    *)
(* of the fallbacks are in thousandths.  A non-finite or non-numeric       *)
(* component is the value NaN.                                             *)
(***************************************************************************)
EXTENDS Integers, Sequences, FiniteSets, TLC

\* ---------------------------------------------------------------- bounds
MaxRows == 6
MaxCols == 2
MaxK == 3
MaxKValues == 2
MaxElbowRows == 3

\* ------------------------------------------------------ program constants
maxAttemptsShort == 10 - 1

maxAttempts == 10

\* ------------------------------------------------------------ arithmetic
Scale == 4 * 3 * 5 * 7
NaN == 0 - (Scale * Scale * Scale)
Milli == 10 * 10 * 10

IsFiniteNum(x) == x # NaN

\* Number(v) || 0
NumOrZero(x) == IF IsFiniteNum(x) THEN x ELSE 0

Range(s) == {s[i] : i \in DOMAIN s}

RECURSIVE SumSeq(_)
SumSeq(s) == IF s = <<>> THEN 0 ELSE Head(s) + SumSeq(Tail(s))

Max2(a, b) == IF a >= b THEN a ELSE b
Min2(a, b) == IF a <= b THEN a ELSE b

RECURSIVE SqrtSearch(_, _, _)
SqrtSearch(x, lo, hi) ==
    IF lo >= hi THEN lo
    ELSE LET mid == (lo + hi + 1) \div 2
         IN IF mid * mid <= x THEN SqrtSearch(x, mid, hi)
            ELSE SqrtSearch(x, lo, mid - 1)

\* Math.sqrt on the fixed-point grid (exact whenever the root is on the grid,
\* in particular for one-dimensional vectors)
Sqrt(x) == SqrtSearch(x, 0, Min2(x, 46340))

\* ------------------------------------------------------ calculateEuclideanDistance
\* the sum of squared component differences; 0 when the lengths differ
SquaredDistance(point1, point2) ==
    IF Len(point1) # Len(point2) THEN 0
    ELSE SumSeq([i \in 1..Len(point1) |->
            (NumOrZero(point1[i]) - NumOrZero(point2[i]))
          * (NumOrZero(point1[i]) - NumOrZero(point2[i]))])

calculateEuclideanDistance(point1, point2) == Sqrt(SquaredDistance(point1, point2))

\* ------------------------------------------------------------ extractFeatures
\* data is a sequence of rows, a row the sequence of the raw values of the
\* selected columns; a value that is not a finite number becomes 0
extractFeatures(data) ==
    [r \in 1..Len(data) |-> [c \in 1..Len(data[r]) |-> NumOrZero(data[r][c])]]

\* -------------------------------------------------------------- calculateWCSS
\* clusters and centroids as the optimizer returned them: a centroid entry is
\* [isArray, vals]; clusters[i] is undefined beyond the array's length
ClusterAt(clusters, i) == IF i <= Len(clusters) THEN clusters[i] ELSE 0 - 1

calculateWCSS(features, clusters, centroids) ==
    SumSeq([i \in 1..Len(features) |->
        LET clusterIdx == ClusterAt(clusters, i)
        IN IF clusterIdx >= 0 /\ clusterIdx < Len(centroids)
              /\ centroids[clusterIdx + 1].isArray
           THEN SquaredDistance(features[i], centroids[clusterIdx + 1].vals)
           ELSE 0])

\* ------------------------------------------------------------ result values
\* What the optimizer (ml-kmeans) hands back: kind "throw" (it raised),
\* "null" (no result object) or "result".  clusters / centroids may be
\* missing; a centroid entry is [isArray, vals].
NoResult == [kind |-> "none"]

MkResult(hc, cl, hz, cz) ==
    [kind |-> "result", hasClusters |-> hc, clusters |-> cl,
     hasCentroids |-> hz, centroids |-> cz]

Arr(v) == [isArray |-> TRUE, vals |-> v]
NotArray == [isArray |-> FALSE, vals |-> <<>>]

Zeros(n) == [d \in 1..n |-> 0]

\* Array(k).fill(0) then count the in-range entries of clusters
clusterCounts(clusters, kk) ==
    [c \in 1..kk |-> Cardinality({i \in DOMAIN clusters : clusters[i] = c - 1})]

\* features[0]?.length || 2
featureDimensions(features) ==
    IF Len(features) > 0 /\ Len(features[1]) > 0 THEN Len(features[1]) ELSE 2

\* --------------------------------------------------- validateClusteringResult
\* Array.from({ length: dataLength }, (_, i) => i % k)
RoundRobin(dataLength, kk) == [i \in 1..dataLength |-> (i - 1) % kk]

repairClustersKeep(result, kk, dataLength) == result.clusters

repairClusters(result, kk, dataLength) ==
    IF ~result.hasClusters \/ Len(result.clusters) # dataLength
    THEN RoundRobin(dataLength, kk)
    ELSE result.clusters

\* the indices idx with clusters[idx] === i, in row order
ClusterPointIdx(features, clusters, i) ==
    {idx \in 1..Len(features) : ClusterAt(clusters, idx) = i}

\* mean of the points of a cluster, dimension by dimension (point[dim] || 0)
MeanOf(features, idxs, dims) ==
    [dim \in 1..dims |->
        LET S == SumSeq([idx \in 1..Len(features) |->
                     IF idx \in idxs /\ dim <= Len(features[idx])
                     THEN features[idx][dim] ELSE 0])
        IN S \div Cardinality(idxs)]

\* features[Math.floor(Math.random() * features.length)] || Array(dims).fill(0)
RandomPoint(features, r) ==
    IF Len(features) = 0 THEN Zeros(featureDimensions(features))
    ELSE features[r + 1]

recomputeCentroids(features, clusters, kk, rnd) ==
    [c \in 1..kk |->
        LET idxs == ClusterPointIdx(features, clusters, c - 1)
        IN IF idxs # {}
           THEN Arr(MeanOf(features, idxs, featureDimensions(features)))
           ELSE Arr(RandomPoint(features, rnd[c]))]

centroidsNeedRebuild(result, kk) ==
    ~result.hasCentroids \/ Len(result.centroids) # kk

repairCentroids(result, clusters, kk, features, rnd) ==
    IF centroidsNeedRebuild(result, kk)
    THEN recomputeCentroids(features, clusters, kk, rnd)
    ELSE result.centroids

sanitizeCentroidKeep(centroid, features) == centroid

\* result.centroids.map(...): a non-array becomes a zero vector, a non-finite
\* component becomes 0
sanitizeCentroid(centroid, features) ==
    IF ~centroid.isArray THEN Arr(Zeros(featureDimensions(features)))
    ELSE Arr([d \in 1..Len(centroid.vals) |-> NumOrZero(centroid.vals[d])])

validateClusteringResult(result, kk, dataLength, features, rnd) ==
    LET cl == repairClusters(result, kk, dataLength)
        cz == repairCentroids(result, cl, kk, features, rnd)
    IN MkResult(TRUE, cl, TRUE,
                [c \in 1..Len(cz) |-> sanitizeCentroid(cz[c], features)])

\* the values Math.random() can select in the repair pass: one row index per
\* cluster; only drawn when some cluster of a rebuilt centroid set is empty
RandomRows(result, kk, dataLength, features) ==
    LET cl == repairClusters(result, kk, dataLength)
    IN IF centroidsNeedRebuild(result, kk) /\ Len(features) > 0
          /\ \E c \in 1..kk : ClusterPointIdx(features, cl, c - 1) = {}
       THEN [1..kk -> 0..(Len(features) - 1)]
       ELSE {[c \in 1..kk |-> 0]}

\* ------------------------------------------------- calculateDaviesBouldinIndex
\* called on a repaired result; the value is in thousandths
withinClusterScatter(features, clusters, centroids, i) ==
    LET idxs == {idx \in DOMAIN clusters : clusters[idx] = i - 1}
        valid == {idx \in idxs : idx <= Len(features)}
        totalDistance == SumSeq([idx \in 1..Len(features) |->
            IF idx \in valid
            THEN calculateEuclideanDistance(features[idx], centroids[i].vals)
            ELSE 0])
    IN IF idxs = {} \/ ~centroids[i].isArray \/ valid = {} THEN 0
       ELSE totalDistance \div Cardinality(valid)

betweenClusterDistance(centroids, i, j) ==
    calculateEuclideanDistance(centroids[i].vals, centroids[j].vals)

\* mij > 0.0001
validPair(centroids, i, j) ==
    i # j /\ betweenClusterDistance(centroids, i, j) * 10000 > Scale

dbRatio(features, clusters, centroids, i, j) ==
    ((withinClusterScatter(features, clusters, centroids, i)
      + withinClusterScatter(features, clusters, centroids, j)) * Milli)
    \div betweenClusterDistance(centroids, i, j)

SetMax(S) == CHOOSE x \in S : \A y \in S : y <= x

maxRatio(features, clusters, centroids, i) ==
    SetMax({0} \cup {dbRatio(features, clusters, centroids, i, j) :
                j \in {j \in 1..Len(centroids) : validPair(centroids, i, j)}})

calculateDaviesBouldinIndex(features, clusters, centroids) ==
    LET kk == Len(centroids)
        validClusters == {i \in 1..kk : \E j \in 1..kk : validPair(centroids, i, j)}
        dbSum == SumSeq([i \in 1..kk |->
                    IF i \in validClusters
                    THEN maxRatio(features, clusters, centroids, i) ELSE 0])
        finalDBI == IF validClusters # {} THEN dbSum \div Cardinality(validClusters)
                    ELSE 0
    IN IF kk <= 1 THEN 0
       ELSE IF Len(features) = 0 THEN 0
       ELSE IF finalDBI = 0 THEN 1
       ELSE finalDBI

\* --------------------------------------------------------------- the datasets
\* rows of raw column values: "line" puts row i at i-1, "pairs" repeats every
\* point twice, "gap" moves the second half away, "nan" has one non-numeric cell
DataShapes == {"line", "pairs", "gap", "nan"}

RawValue(shape, r, c) ==
    LET base == IF shape = "pairs" THEN (r - 1) \div 2
                ELSE IF shape = "gap" THEN (r \div 2) + (IF r % 2 = 0 THEN 3 ELSE 0)
                ELSE r - 1
    IN IF shape = "nan" /\ r = 1 THEN NaN ELSE (base + c - 1) * Scale

Dataset(shape, n, cols) ==
    [r \in 1..n |-> [c \in 1..cols |-> RawValue(shape, r, c)]]

\* ------------------------------------------------- what the optimizer returns
\* ml-kmeans is outside the repository: each call returns one of these
Blocks(n, kk) == [i \in 1..n |-> ((i - 1) * kk) \div n]

ReplaceAt(s, i, v) == [j \in DOMAIN s |-> IF j = i THEN v ELSE s[j]]

ClusterArrays(n, kk) ==
    {RoundRobin(L, kk) : L \in {m \in {n - 1, n, n + 1} : m >= 0}}
    \cup {Blocks(n, kk), [i \in 1..n |-> 0]}
    \cup (IF n >= 1
          THEN {ReplaceAt(RoundRobin(n, kk), n, kk),
                ReplaceAt(RoundRobin(n, kk), 1, 0 - 1)}
          ELSE {})

\* the first cnt rows of the features, cycled, as centroids
FirstRows(features, cnt) ==
    [c \in 1..cnt |->
        IF Len(features) = 0 THEN Arr(<<0>>)
        ELSE Arr(features[((c - 1) % Len(features)) + 1])]

MeansOrZero(features, clusters, kk) ==
    [c \in 1..kk |->
        LET idxs == ClusterPointIdx(features, clusters, c - 1)
        IN IF idxs # {} THEN Arr(MeanOf(features, idxs, featureDimensions(features)))
           ELSE Arr(Zeros(featureDimensions(features)))]

CentroidArrays(features, clusters, kk) ==
    {MeansOrZero(features, clusters, kk)}
    \cup {FirstRows(features, cnt) : cnt \in {m \in {kk - 1, kk, kk + 1} : m >= 0}}
    \cup {[c \in 1..kk |-> Arr(FirstRows(features, kk)[c].vals \o <<0>>)]}
    \cup {ReplaceAt(FirstRows(features, kk), 1, NotArray)}
    \cup {ReplaceAt(FirstRows(features, kk), 1,
                    Arr(ReplaceAt(FirstRows(features, kk)[1].vals, 1, NaN)))}

KMeansOutcomes(features, kk) ==
    {[kind |-> "throw"], [kind |-> "null"]}
    \cup {MkResult(FALSE, <<>>, hz, <<>>) : hz \in BOOLEAN}
    \cup UNION {
           {MkResult(TRUE, cl, FALSE, <<>>)}
           \cup {MkResult(TRUE, cl, TRUE, cz) : cz \in CentroidArrays(features, cl, kk)}
         : cl \in ClusterArrays(Len(features), kk)}

\* the well-formed outcomes and the plain failures
CoreOutcomes(features, kk) ==
    {[kind |-> "throw"], [kind |-> "null"]}
    \cup UNION {
           {MkResult(TRUE, cl, TRUE, MeansOrZero(features, cl, kk)),
            MkResult(TRUE, cl, TRUE, FirstRows(features, kk))}
         : cl \in {RoundRobin(Len(features), kk), Blocks(Len(features), kk),
                   [i \in 1..Len(features) |-> 0]}}

\* ---------------------------------------------------------- runKMeansWithRetry
Infinity == 20 * Scale * Scale * Scale

attemptAcceptedWithEmpty(o, kk) ==
    /\ o.kind = "result"
    /\ o.hasClusters
    /\ o.hasCentroids

\* the attempt survives the structure check and the empty-cluster check
attemptAccepted(o, kk) ==
    /\ o.kind = "result"
    /\ o.hasClusters
    /\ o.hasCentroids
    /\ \A c \in 1..kk : clusterCounts(o.clusters, kk)[c] # 0

improvesBestOrTies(wcss, best, bestW) == wcss <= bestW \/ best = NoResult

\* wcss < bestWCSS || bestResult === null
improvesBest(wcss, best, bestW) == wcss < bestW \/ best = NoResult

VARIABLES
    op,                 \* entry point being executed
    pc,                 \* control position inside it
    data,               \* the dataset rows (raw values of the selected columns)
    numericalColumns,   \* number of selected columns
    k,                  \* number of clusters of the current run
    attempt,            \* runKMeansWithRetry: loop counter
    bestResult,         \* runKMeansWithRetry: best accepted result so far
    bestWCSS,           \* runKMeansWithRetry: its WCSS
    kValues,            \* elbow sweep: the k list as supplied
    ki,                 \* elbow sweep: position in the sorted k list
    wcssValues,         \* elbow sweep: report under construction
    dbiValues,          \* elbow sweep: report under construction
    released,           \* what the entry point returned or threw
    accepted,           \* history: earliest accepted attempt per WCSS value
    bestAttempt,        \* history: the attempt bestResult was taken from
    spread,             \* history: the most values one step could have produced
                        \*   from one state, over its Math.random() draws
    table,              \* preprocessing: the rows handed in (column name -> cell)
    columns,            \* preprocessing: the column names to process
    maxCardinality,     \* smartOneHotEncoding: the cardinality threshold
    ci,                 \* preprocessing: columns processed so far
    encodedData,        \* preprocessing: the copy of the rows being rewritten
    encodingMaps,       \* preprocessing: column name -> what was recorded for it
    newColumns,         \* oneHotEncoding: the indicator columns created so far
    excludedColumns,    \* smartOneHotEncoding: the columns filtered out
    rawData,            \* App: the upload the parsed file came from, 0 for null
    processedData,      \* App: the upload the encoded data came from, 0 for null
    normalizedData,     \* App: the upload the normalized data came from, 0 for null
    showNormalizationStep, \* App: whether the normalization step is displayed
    activeStep,         \* App: the workflow step on display
    isLoading,          \* App: the loading flag
    experimentResults,  \* App: the committed results of the last batch
    currentExperiments, \* App: the experiments of the last batch
    elbowData,          \* App: the committed elbow report, or null
    parsing,            \* App: the upload whose parseFile is in flight, 0 for none
    batch,              \* App: the runClusteringExperiments call in flight
    sweep,              \* App: the runElbowMethod call in flight
    log,                \* history: the experiments of the batch in execution order
    experiments,        \* ClusterExperiments: the experiment list
    rowCount,           \* ClusterExperiments: rows of the dataset behind maxK
    handed,             \* ClusterExperiments: the last list given to onRunExperiments
    edits               \* ClusterExperiments: updateExperiment calls so far

retryVars == <<attempt, bestResult, bestWCSS>>
elbowVars == <<kValues, ki, wcssValues, dbiValues>>
inputVars == <<op, data, numericalColumns>>
histVars == <<accepted, bestAttempt, spread>>
prepVars == <<table, columns, maxCardinality, ci, encodedData, encodingMaps,
              newColumns, excludedColumns>>
appVars == <<rawData, processedData, normalizedData, showNormalizationStep,
             activeStep, isLoading, experimentResults, currentExperiments,
             elbowData, parsing, batch, sweep, log>>
listVars == <<experiments, rowCount, handed, edits>>
uiVars == <<appVars, listVars>>
engineVars == <<data, numericalColumns, k, retryVars, elbowVars, histVars>>
vars == <<op, pc, data, numericalColumns, k, attempt, bestResult, bestWCSS,
          kValues, ki, wcssValues, dbiValues, released, accepted, bestAttempt,
          spread, table, columns, maxCardinality, ci, encodedData,
          encodingMaps, newColumns, excludedColumns,
          rawData, processedData, normalizedData, showNormalizationStep,
          activeStep, isLoading, experimentResults, currentExperiments,
          elbowData, parsing, batch, sweep, log,
          experiments, rowCount, handed, edits>>

features == extractFeatures(data)

NotReleased == [status |-> "none"]
Thrown(e) == [status |-> "thrown", error |-> e]

RetryReset ==
    /\ attempt' = 0
    /\ bestResult' = NoResult
    /\ bestWCSS' = Infinity

\* elbowData while it is null
NoElbowData == [isNull |-> TRUE]

\* no call of the App is in flight
NoCall == [pc |-> "idle"]

\* the user interface is not part of the run
UiIdle ==
    /\ rawData = 0 /\ processedData = 0 /\ normalizedData = 0
    /\ showNormalizationStep = FALSE /\ activeStep = 1 /\ isLoading = FALSE
    /\ experimentResults = <<>> /\ currentExperiments = <<>>
    /\ elbowData = NoElbowData /\ parsing = 0 /\ batch = NoCall /\ sweep = NoCall
    /\ log = <<>>
    /\ experiments = <<>> /\ rowCount = 0 /\ handed = <<>> /\ edits = 0

\* no preprocessing call is in progress
PrepIdle ==
    /\ table = <<>> /\ columns = <<>> /\ maxCardinality = 0 /\ ci = 0
    /\ encodedData = <<>> /\ encodingMaps = <<>> /\ newColumns = <<>>
    /\ excludedColumns = <<>>

InitCommon ==
    /\ PrepIdle
    /\ attempt = 0
    /\ bestResult = NoResult
    /\ bestWCSS = Infinity
    /\ released = NotReleased
    /\ accepted = {}
    /\ bestAttempt = 0
    /\ spread = 1

\* one iteration of the for loop of runKMeansWithRetry with the optimizer
\* returning o
AttemptStep(o) ==
    /\ attempt' = attempt + 1
    /\ IF attemptAccepted(o, k)
          /\ improvesBest(calculateWCSS(features, o.clusters, o.centroids),
                          bestResult, bestWCSS)
       THEN /\ bestWCSS' = calculateWCSS(features, o.clusters, o.centroids)
            /\ bestResult' = o
       ELSE UNCHANGED <<bestResult, bestWCSS>>
    /\ UNCHANGED <<inputVars, prepVars, uiVars, pc, k, elbowVars, released>>

Attempt ==
    /\ pc = "attempts"
    /\ attempt < maxAttempts
    /\ \E o \in KMeansOutcomes(features, k) : AttemptStep(o) /\ UNCHANGED histVars

\* ----------------------------------------------------- performKMeansClustering
InitCluster ==
    /\ op = "cluster"
    /\ pc = "start"
    /\ numericalColumns \in 0..MaxCols
    /\ \E shape \in {"gap", "nan"}, n \in 0..MaxRows :
          data = Dataset(shape, n, numericalColumns)
    /\ k \in 0..(MaxK + 1)
    /\ kValues = <<>> /\ ki = 0 /\ wcssValues = <<>> /\ dbiValues = <<>>
    /\ InitCommon
    /\ UiIdle

clusterInputInvalidNoColumns ==
    \/ Len(data) = 0
    \/ k < 1 \/ k > Len(data)
    \/ Len(features) = 0
    \/ Len(features) < k

\* the five checks ahead of the try block of performKMeansClustering
clusterInputInvalid ==
    \/ Len(data) = 0
    \/ numericalColumns = 0
    \/ k < 1 \/ k > Len(data)
    \/ Len(features) = 0
    \/ Len(features) < k

ClusterStart ==
    /\ op = "cluster" /\ pc = "start"
    /\ IF clusterInputInvalid
       THEN /\ pc' = "thrown"
            /\ released' = Thrown("validation")
            /\ UNCHANGED retryVars
       ELSE /\ pc' = "attempts"
            /\ RetryReset
            /\ UNCHANGED released
    /\ UNCHANGED <<inputVars, prepVars, uiVars, k, elbowVars, histVars>>

\* Array(k).fill(0), then count the in-range assignments
clusterSizes(clusters, kk) == clusterCounts(clusters, kk)

\* data.map((point, i) => ({...point, cluster: i < clusters.length ? clusters[i] : 0}))
clusteredData(rows, clusters) ==
    [i \in 1..Len(rows) |-> IF i <= Len(clusters) THEN clusters[i] ELSE 0]

ClusterReturn(best, rnd) ==
    LET result == validateClusteringResult(best, k, Len(features), features, rnd)
    IN [status |-> "returned",
        clusters |-> result.clusters,
        centroids |-> result.centroids,
        clusterSizes |-> clusterSizes(result.clusters, k),
        data |-> clusteredData(data, result.clusters),
        daviesBouldinIndex |->
            calculateDaviesBouldinIndex(features, result.clusters, result.centroids),
        wcss |-> calculateWCSS(features, result.clusters, result.centroids)]

\* the retry loop is over: runKMeansWithRetry throws or returns bestResult
retryFailed(best) == best = NoResult

ClusterFinish ==
    /\ op = "cluster" /\ pc = "attempts"
    /\ attempt = maxAttempts
    /\ IF retryFailed(bestResult)
       THEN /\ pc' = "thrown"
            /\ released' = Thrown("computation")
            /\ UNCHANGED spread
       ELSE /\ pc' = "returned"
            /\ \E rnd \in RandomRows(bestResult, k, Len(features), features) :
                  released' = ClusterReturn(bestResult, rnd)
            /\ spread' = Max2(spread, Cardinality(
                  {ClusterReturn(bestResult, rnd) :
                     rnd \in RandomRows(bestResult, k, Len(features), features)}))
    /\ UNCHANGED <<inputVars, prepVars, uiVars, k, retryVars, elbowVars, accepted, bestAttempt>>

NextCluster == ClusterStart \/ Attempt \/ ClusterFinish

SpecCluster == InitCluster /\ [][NextCluster]_vars

\* --------------------------------------- performKMeansClustering with a history
\* The same entry point on small inputs, every attempt recorded: accepted holds,
\* for each WCSS value seen, the earliest attempt that was accepted with it.
AcceptedOutcome(o, kk) ==
    /\ o.kind = "result" /\ o.hasClusters /\ o.hasCentroids
    /\ 0..(kk - 1) \subseteq Range(o.clusters)

Record(o) ==
    LET w == calculateWCSS(features, o.clusters, o.centroids)
    IN IF AcceptedOutcome(o, k) /\ ~\E rec \in accepted : rec.wcss = w
       THEN accepted' = accepted \cup
                {[attempt |-> attempt + 1, wcss |-> w, result |-> o]}
       ELSE UNCHANGED accepted

AttemptLogged ==
    /\ pc = "attempts"
    /\ attempt < maxAttempts
    /\ \E o \in CoreOutcomes(features, k) :
          /\ AttemptStep(o)
          /\ Record(o)
          /\ bestAttempt' = IF bestResult' # bestResult \/ bestWCSS' # bestWCSS
                            THEN attempt + 1 ELSE bestAttempt
          /\ UNCHANGED spread

InitRetry ==
    /\ op = "cluster"
    /\ pc = "start"
    /\ numericalColumns = 1
    /\ data \in {Dataset("line", 3, 1), Dataset("pairs", 4, 1)}
    /\ k \in 1..MaxK
    /\ kValues = <<>> /\ ki = 0 /\ wcssValues = <<>> /\ dbiValues = <<>>
    /\ InitCommon
    /\ UiIdle

NextRetry == ClusterStart \/ AttemptLogged \/ ClusterFinish

SpecRetry == InitRetry /\ [][NextRetry]_vars

\* C7: when the retry loop ends, bestResult (what runKMeansWithRetry returns)
\* is the result of an accepted attempt whose WCSS is minimal among the accepted
\* attempts, the earliest of them; with no accepted attempt there is no result
C7_BestIsEarliestMinimum ==
    (pc = "attempts" /\ attempt = maxAttempts) =>
        IF accepted = {} THEN bestResult = NoResult
        ELSE \E rec \in accepted :
                /\ rec.result = bestResult
                /\ rec.attempt = bestAttempt
                /\ \A other \in accepted : rec.wcss <= other.wcss

\* several attempts were accepted and the one returned is not the first of them
C7_Witness ==
    /\ pc = "attempts" /\ attempt = maxAttempts
    /\ Cardinality(accepted) >= 2
    /\ \E rec \in accepted : rec.attempt < bestAttempt

\* C8: when all 10 attempts are rejected or throw, the run fails after the
\* last attempt and performKMeansClustering throws a computation error
C8_AllFailedThrows ==
    /\ (pc \in {"returned", "thrown"} /\ attempt > 0 /\ accepted = {})
          => released = Thrown("computation")
    /\ released = Thrown("computation") => (attempt = 10 /\ accepted = {})

C8_Witness ==
    released = Thrown("computation") /\ attempt = 10 /\ accepted = {}

\* ------------------------------------------- validateClusteringResult on its own
\* the results the repair pass may be handed: clusters missing or of any of the
\* lengths n-1, n, n+1, centroids missing, of the counts k-1, k, k+1, of the
\* wrong dimension, with a non-array entry or a non-finite component
RepairInputs(feats, kk) ==
    UNION {
        {MkResult(hc, cl, FALSE, <<>>) : hc \in BOOLEAN}
        \cup {MkResult(hc, cl, TRUE, cz) :
                hc \in BOOLEAN, cz \in CentroidArrays(feats, cl, kk)}
      : cl \in ClusterArrays(Len(feats), kk)}

InitRepair ==
    /\ op = "repair"
    /\ pc = "start"
    /\ numericalColumns \in 1..MaxCols
    /\ \E shape \in DataShapes, n \in 0..MaxRows :
          data = Dataset(shape, n, numericalColumns)
    /\ k \in 1..MaxK
    /\ bestResult \in RepairInputs(features, k)
    /\ attempt = 0 /\ bestWCSS = Infinity
    /\ kValues = <<>> /\ ki = 0 /\ wcssValues = <<>> /\ dbiValues = <<>>
    /\ released = NotReleased
    /\ accepted = {} /\ bestAttempt = 0 /\ spread = 1
    /\ PrepIdle
    /\ UiIdle

Repair ==
    /\ op = "repair" /\ pc = "start"
    /\ pc' = "repaired"
    /\ \E rnd \in RandomRows(bestResult, k, Len(features), features) :
          released' = validateClusteringResult(bestResult, k, Len(features),
                                               features, rnd)
    /\ spread' = Cardinality(
          {validateClusteringResult(bestResult, k, Len(features), features, rnd) :
             rnd \in RandomRows(bestResult, k, Len(features), features)})
    /\ UNCHANGED <<inputVars, prepVars, uiVars, k, retryVars, elbowVars, accepted, bestAttempt>>

NextRepair == Repair

SpecRepair == InitRepair /\ [][NextRepair]_vars

clustersRebuilt ==
    ~bestResult.hasClusters \/ Len(bestResult.clusters) # Len(features)

\* C5: for k >= 1 the repair pass returns, for every input result, a clusters
\* array of length dataLength (i mod k at position i when it was rebuilt) and
\* k centroids, each an array of finite numbers
C5_RepairedStructure ==
    pc = "repaired" =>
        /\ Len(released.clusters) = Len(features)
        /\ clustersRebuilt =>
              \A i \in 1..Len(features) : released.clusters[i] = (i - 1) % k
        /\ Len(released.centroids) = k
        /\ \A c \in 1..Len(released.centroids) :
              /\ released.centroids[c].isArray
              /\ \A d \in 1..Len(released.centroids[c].vals) :
                    IsFiniteNum(released.centroids[c].vals[d])

\* a result with a wrong-length clusters array and a non-finite centroid
\* component went through the repair pass
C5_Witness ==
    /\ pc = "repaired"
    /\ bestResult.hasClusters /\ Len(bestResult.clusters) = Len(features) + 1
    /\ bestResult.hasCentroids /\ Len(bestResult.centroids) = k
    /\ \E c \in 1..k : \E d \in 1..Len(bestResult.centroids[c].vals) :
          ~IsFiniteNum(bestResult.centroids[c].vals[d])

\* ------------------------------------------ calculateElbowMethodFromExperiments
\* [...kValues].sort((a, b) => a - b)
RECURSIVE InsertSorted(_, _)
InsertSorted(s, x) ==
    IF s = <<>> THEN <<x>>
    ELSE IF x < Head(s) THEN <<x>> \o s
    ELSE <<Head(s)>> \o InsertSorted(Tail(s), x)

RECURSIVE SortAsc(_)
SortAsc(s) == IF s = <<>> THEN <<>> ELSE InsertSorted(SortAsc(Tail(s)), Head(s))

sortedKValues == SortAsc(kValues)

\* floor(x * m / 1000) without leaving the machine integers
MulMilli(x, m) == (x \div Milli) * m + ((x % Milli) * m) \div Milli

\* Math.random(), in thousandths
RandomUnit == {0, 999}

\* features.reduce(sum of squared components)
totalVariance(feats) ==
    SumSeq([r \in 1..Len(feats) |->
              SumSeq([c \in 1..Len(feats[r]) |-> feats[r][c] * feats[r][c]])])

\* the catch block: values substituted for a k whose run failed
fallbackWCSS(r1) ==
    IF wcssValues # <<>> /\ wcssValues[Len(wcssValues)] > 0
    THEN MulMilli(wcssValues[Len(wcssValues)], 600 + (r1 * 300) \div Milli)
    ELSE totalVariance(features) \div k

fallbackDBI(r2) ==
    IF wcssValues # <<>> /\ wcssValues[Len(wcssValues)] > 0
    THEN Max2(100, MulMilli(IF dbiValues[Len(dbiValues)] = 0 THEN Milli
                              ELSE dbiValues[Len(dbiValues)],
                            700 + (r2 * 500) \div Milli))
    ELSE 500 + (r2 * 1500) \div Milli

AttemptCore ==
    /\ pc = "attempts"
    /\ attempt < maxAttempts
    /\ \E o \in CoreOutcomes(features, k) : AttemptStep(o) /\ UNCHANGED histVars

InitElbow ==
    /\ op = "elbow"
    /\ pc = "start"
    /\ numericalColumns \in 0..1
    /\ \E shape \in {"line", "pairs"}, n \in 0..MaxElbowRows :
          data = Dataset(shape, n, numericalColumns)
    /\ k = 0
    /\ kValues \in UNION {[1..len -> 1..MaxK] : len \in 0..MaxKValues}
    /\ ki = 0 /\ wcssValues = <<>> /\ dbiValues = <<>>
    /\ InitCommon
    /\ UiIdle

elbowInputInvalid ==
    \/ Len(data) = 0
    \/ numericalColumns = 0
    \/ Len(kValues) = 0
    \/ Len(features) = 0

ElbowStart ==
    /\ op = "elbow" /\ pc = "start"
    /\ IF elbowInputInvalid
       THEN /\ pc' = "thrown"
            /\ released' = Thrown("validation")
            /\ UNCHANGED <<k, ki, retryVars>>
       ELSE /\ pc' = "attempts"
            /\ ki' = 1
            /\ k' = sortedKValues[1]
            /\ RetryReset
            /\ UNCHANGED released
    /\ UNCHANGED <<inputVars, prepVars, uiVars, kValues, wcssValues, dbiValues, histVars>>

sweepDoneOnFailure(failed) == ki = Len(sortedKValues) \/ failed

\* for (const k of sortedKValues): the loop ends after the last k, whether or
\* not the run for a k failed
sweepDone(failed) == ki = Len(sortedKValues)

\* the body of the for loop once runKMeansWithRetry is over: the metrics of the
\* repaired result, or the fallback pair when the run failed
ElbowPush(w, d, failed) ==
    /\ wcssValues' = Append(wcssValues, w)
    /\ dbiValues' = Append(dbiValues, d)
    /\ IF sweepDone(failed)
       THEN /\ pc' = "returned"
            /\ released' = [status |-> "returned",
                            wcss |-> Append(wcssValues, w),
                            dbi |-> Append(dbiValues, d)]
            /\ UNCHANGED <<k, ki, retryVars>>
       ELSE /\ ki' = ki + 1
            /\ k' = sortedKValues[ki + 1]
            /\ RetryReset
            /\ UNCHANGED <<pc, released>>

\* the metrics of the repaired best result
elbowMetrics(rnd) ==
    LET result == validateClusteringResult(bestResult, k, Len(features),
                                           features, rnd)
    IN <<calculateWCSS(features, result.clusters, result.centroids),
         calculateDaviesBouldinIndex(features, result.clusters, result.centroids)>>

ElbowStep ==
    /\ op = "elbow" /\ pc = "attempts"
    /\ attempt = maxAttempts
    /\ IF retryFailed(bestResult)
       THEN /\ \E r1 \in RandomUnit, r2 \in RandomUnit :
                  ElbowPush(fallbackWCSS(r1), fallbackDBI(r2), TRUE)
            /\ spread' = Max2(spread, Cardinality(
                  {<<fallbackWCSS(r1), fallbackDBI(r2)>> :
                     r1 \in RandomUnit, r2 \in RandomUnit}))
       ELSE /\ \E rnd \in RandomRows(bestResult, k, Len(features), features) :
                  ElbowPush(elbowMetrics(rnd)[1], elbowMetrics(rnd)[2], FALSE)
            /\ spread' = Max2(spread, Cardinality(
                  {elbowMetrics(rnd) :
                     rnd \in RandomRows(bestResult, k, Len(features), features)}))
    /\ UNCHANGED <<inputVars, prepVars, uiVars, kValues, accepted, bestAttempt>>

NextElbow == ElbowStart \/ AttemptCore \/ ElbowStep

SpecElbow == InitElbow /\ [][NextElbow]_vars

ElbowReturned == op = "elbow" /\ pc = "returned" /\ released.status = "returned"

\* C9: the DBI entry of an elbow report for k = 1 is exactly 0, also when the
\* run for k = 1 failed and the entry comes from the fallback
C9_DbiAtK1IsZero ==
    ElbowReturned =>
        \A i \in 1..Len(released.dbi) : sortedKValues[i] = 1 => released.dbi[i] = 0

\* sum over the feature vectors of the squared distance to the column-wise mean
totalSumOfSquares(feats) ==
    LET mean == MeanOf(feats, 1..Len(feats), Len(feats[1]))
    IN SumSeq([r \in 1..Len(feats) |-> SquaredDistance(feats[r], mean)])

\* C10: the WCSS entry of an elbow report for k = 1 is the sum of the squared
\* distances of the feature vectors to the global mean vector
C10_WcssAtK1IsTotalSumOfSquares ==
    ElbowReturned =>
        \A i \in 1..Len(released.wcss) :
            sortedKValues[i] = 1 => released.wcss[i] = totalSumOfSquares(features)

\* ------------------------------------------------------------ preprocessing
\* a cell of a DataPoint is a number, a string, null, or undefined when the
\* row has no such property
Num(n) == [t |-> "num", n |-> n]
Str(x) == [t |-> "str", s |-> x]
Null == [t |-> "null"]
Undefined == [t |-> "undefined"]

\* row[column]
CellOf(row, c) == IF c \in DOMAIN row THEN row[c] ELSE Undefined

Digits == <<"0", "1", "2", "3", "4", "5", "6", "7", "8", "9">>

RECURSIVE NatToString(_)
NatToString(n) ==
    IF n < 10 THEN Digits[n + 1]
    ELSE NatToString(n \div 10) \o Digits[(n % 10) + 1]

\* String(v) of JavaScript
String(v) ==
    IF v.t = "null" THEN "null"
    ELSE IF v.t = "undefined" THEN "undefined"
    ELSE IF v.t = "str" THEN v.s
    ELSE IF v.n = NaN THEN "NaN"
    ELSE IF v.n = Infinity THEN "Infinity"
    ELSE IF v.n = -Infinity THEN "-Infinity"
    ELSE IF v.n < 0 THEN "-" \o NatToString(-v.n)
    ELSE NatToString(v.n)

\* the values that || replaces by its right operand
falsy(v) ==
    \/ v.t \in {"null", "undefined"}
    \/ v.t = "str" /\ v.s = ""
    \/ v.t = "num" /\ v.n \in {0, NaN}

\* String(row[column] || '')
stringOrEmpty(v) == IF falsy(v) THEN "" ELSE String(v)

\* the strings of the model in the order Array.prototype.sort() puts them
\* (UTF-16 code units)
CodeUnitOrder == <<"", "-Infinity", "0", "5", "A", "A B", "A_B", "B",
                   "Infinity", "NaN", "null", "undefined">>

PositionIn(seq, x) == CHOOSE i \in 1..Len(seq) : seq[i] = x

LexLess(x, y) == PositionIn(CodeUnitOrder, x) < PositionIn(CodeUnitOrder, y)

\* [...new Set(strings)].sort()
sortedUnique(strings) == SelectSeq(CodeUnitOrder, LAMBDA x : x \in strings)

RowIdx(rows) == 1..Len(rows)

\* new Set(data.map(row => String(row[column] || '')))
columnValues(rows, c) == {stringOrEmpty(CellOf(rows[i], c)) : i \in RowIdx(rows)}

\* row[column] = v
SetCell(row, c, v) == [x \in DOMAIN row \cup {c} |-> IF x = c THEN v ELSE row[x]]

\* delete row[column]
DeleteCell(row, c) == [x \in DOMAIN row \ {c} |-> row[x]]

\* encodingMaps[column] = m
SetMap(maps, c, m) == [x \in DOMAIN maps \cup {c} |-> IF x = c THEN m ELSE maps[x]]

\* nothing of the clustering engine is in use during a preprocessing call
EngineIdle ==
    /\ data = <<>> /\ numericalColumns = 0 /\ k = 0
    /\ kValues = <<>> /\ ki = 0 /\ wcssValues = <<>> /\ dbiValues = <<>>
    /\ attempt = 0 /\ bestResult = NoResult /\ bestWCSS = Infinity
    /\ accepted = {} /\ bestAttempt = 0 /\ spread = 1

\* const encodedData = data.map(row => ({...row})) and empty result maps
PrepStart(name) ==
    /\ op = name /\ pc = "start"
    /\ pc' = "columns"
    /\ encodedData' = table
    /\ encodingMaps' = <<>>
    /\ newColumns' = <<>>
    /\ ci' = 0

\* ----------------------------------------------------------- labelEncoding
MaxTableRows == 3

\* value -> index in the sorted distinct values of the column
labelMap(rows, c) ==
    LET uniqueValues == sortedUnique(columnValues(rows, c))
    IN [v \in Range(uniqueValues) |-> PositionIn(uniqueValues, v) - 1]

\* row[column] = encodingMaps[column][originalValue] || 0
labelCode(map, v) ==
    IF stringOrEmpty(v) \in DOMAIN map THEN Num(map[stringOrEmpty(v)]) ELSE Num(0)

LabelCells == {Num(0), Num(5), Null, Str(""), Str("A"), Str("B")}

InitLabel ==
    /\ op = "labelEncoding" /\ pc = "start"
    /\ \E n \in 1..MaxTableRows :
          table \in [1..n -> [{"color", "size"} -> LabelCells]]
    /\ \A i \in RowIdx(table) : table[i]["size"] \in {Str("A"), Str("B")}
    /\ columns \in {<<"color">>, <<"color", "size">>}
    /\ maxCardinality = 0 /\ ci = 0
    /\ encodedData = <<>> /\ encodingMaps = <<>> /\ newColumns = <<>>
    /\ excludedColumns = <<>>
    /\ released = NotReleased
    /\ EngineIdle
    /\ UiIdle

LabelStart ==
    /\ PrepStart("labelEncoding")
    /\ UNCHANGED <<op, table, columns, maxCardinality, excludedColumns,
                   released, engineVars, uiVars>>

\* one round of categoricalColumns.forEach
LabelColumn ==
    /\ op = "labelEncoding" /\ pc = "columns"
    /\ ci < Len(columns)
    /\ LET column == columns[ci + 1]
           map == labelMap(table, column)
       IN /\ encodingMaps' = SetMap(encodingMaps, column, map)
          /\ encodedData' =
                [i \in RowIdx(encodedData) |->
                    SetCell(encodedData[i], column,
                            labelCode(map, CellOf(encodedData[i], column)))]
    /\ ci' = ci + 1
    /\ UNCHANGED <<op, pc, table, columns, maxCardinality, newColumns,
                   excludedColumns, released, engineVars, uiVars>>

LabelReturn ==
    /\ op = "labelEncoding" /\ pc = "columns"
    /\ ci = Len(columns)
    /\ pc' = "returned"
    /\ released' = [status |-> "returned", encodedData |-> encodedData,
                    encodingMaps |-> encodingMaps]
    /\ UNCHANGED <<op, prepVars, engineVars, uiVars>>

NextLabel == LabelStart \/ LabelColumn \/ LabelReturn

SpecLabel == InitLabel /\ [][NextLabel]_vars

\* C15: for each categorical column the map sends the distinct stringified
\* values of the column one-to-one onto 0..n-1 in ascending lexicographic
\* order, every row holds the index of its own stringified value, and two rows
\* have the same code exactly when their stringified values are equal
\* (including rows holding 0, null or the empty string)
C15_LabelCodes ==
    (op = "labelEncoding" /\ pc = "returned") =>
        \A x \in 1..Len(columns) :
            LET c == columns[x]
                str(i) == String(CellOf(table[i], c))
                vals == {str(i) : i \in RowIdx(table)}
                map == released.encodingMaps[c]
                code(i) == released.encodedData[i][c]
            IN /\ DOMAIN map = vals
               /\ {map[v] : v \in vals} = 0..(Cardinality(vals) - 1)
               /\ \A v \in vals : \A w \in vals : LexLess(v, w) => map[v] < map[w]
               /\ \A i \in RowIdx(table) : code(i) = Num(map[str(i)])
               /\ \A i \in RowIdx(table) : \A j \in RowIdx(table) :
                     (code(i) = code(j)) <=> (str(i) = str(j))

\* ---------------------------------------------------- smartOneHotEncoding
MaxThreshold == 2

\* value.replace(/[^a-zA-Z0-9]/g, '_') on the strings of the model
replaceNonAlnum(value) ==
    IF value = "A B" THEN "A_B"
    ELSE IF value = "-Infinity" THEN "_Infinity"
    ELSE value

\* `${column}_${value.replace(/[^a-zA-Z0-9]/g, '_')}`
newColumnName(column, value) == column \o "_" \o replaceNonAlnum(value)

\* uniqueValues.size in filterColumnsForClustering
cardinality(rows, c) == Cardinality(columnValues(rows, c))

\* cardinality <= maxCardinality
withinThreshold(rows, c, maxCard) == cardinality(rows, c) <= maxCard

\* filterColumnsForClustering(...).suitableColumns
suitableColumns ==
    SelectSeq(columns, LAMBDA c : withinThreshold(table, c, maxCardinality))

filteredOut ==
    SelectSeq(columns, LAMBDA c : ~withinThreshold(table, c, maxCardinality))

\* the rows after one round of categoricalColumns.forEach of oneHotEncoding:
\* every indicator column of the column set to 0, the one of the row's own
\* value set to 1, the original column deleted
RECURSIVE ZeroAll(_, _)
ZeroAll(row, names) ==
    IF names = <<>> THEN row
    ELSE ZeroAll(SetCell(row, Head(names), Num(0)), Tail(names))

oneHotNames(rows, column) ==
    LET uniqueValues == sortedUnique(columnValues(rows, column))
    IN [x \in 1..Len(uniqueValues) |-> newColumnName(column, uniqueValues[x])]

oneHotMap(rows, column) ==
    [v \in columnValues(rows, column) |-> newColumnName(column, v)]

oneHotRow(row, column, map, names) ==
    LET zeroed == ZeroAll(row, names)
        originalValue == stringOrEmpty(CellOf(zeroed, column))
        marked == IF originalValue \in DOMAIN map
                  THEN SetCell(zeroed, map[originalValue], Num(1))
                  ELSE zeroed
    IN DeleteCell(marked, column)

OneHotCells == {Str("A"), Str("B"), Str("A B")}

InitSmart ==
    /\ op = "smartOneHotEncoding" /\ pc = "start"
    /\ \E n \in 1..MaxTableRows :
          table \in [1..n -> [{"color", "size"} -> OneHotCells]]
    /\ \A i \in RowIdx(table) : table[i]["size"] \in {Str("A"), Str("B")}
    /\ columns \in {<<"color">>, <<"color", "size">>}
    /\ maxCardinality \in 1..MaxThreshold
    /\ ci = 0
    /\ encodedData = <<>> /\ encodingMaps = <<>> /\ newColumns = <<>>
    /\ excludedColumns = <<>>
    /\ released = NotReleased
    /\ EngineIdle
    /\ UiIdle

smartResult(rows, maps, names, excluded) ==
    [status |-> "returned", encodedData |-> rows, encodingMaps |-> maps,
     newColumns |-> names, excludedColumns |-> excluded]

\* filterColumnsForClustering, then either the early return or the start of
\* oneHotEncoding(data, suitableColumns)
SmartStart ==
    /\ op = "smartOneHotEncoding" /\ pc = "start"
    /\ excludedColumns' = filteredOut
    /\ encodedData' = table
    /\ encodingMaps' = <<>>
    /\ newColumns' = <<>>
    /\ ci' = 0
    /\ IF Len(suitableColumns) = 0
       THEN /\ pc' = "returned"
            /\ released' = smartResult(table, <<>>, <<>>, filteredOut)
       ELSE /\ pc' = "columns"
            /\ UNCHANGED released
    /\ UNCHANGED <<op, table, columns, maxCardinality, engineVars, uiVars>>

\* the categoricalColumns argument of oneHotEncoding
oneHotColumns == IF op = "oneHotEncoding" THEN columns ELSE suitableColumns

\* one round of categoricalColumns.forEach of oneHotEncoding
OneHotColumn ==
    /\ op \in {"smartOneHotEncoding", "oneHotEncoding"} /\ pc = "columns"
    /\ ci < Len(oneHotColumns)
    /\ LET column == oneHotColumns[ci + 1]
           names == oneHotNames(table, column)
           map == oneHotMap(table, column)
       IN /\ encodingMaps' = SetMap(encodingMaps, column, map)
          /\ newColumns' = newColumns \o names
          /\ encodedData' =
                [i \in RowIdx(encodedData) |->
                    oneHotRow(encodedData[i], column, map, names)]
    /\ ci' = ci + 1
    /\ UNCHANGED <<op, pc, table, columns, maxCardinality, excludedColumns,
                   released, engineVars, uiVars>>

RECURSIVE DeleteAll(_, _)
DeleteAll(row, names) ==
    IF names = <<>> THEN row
    ELSE DeleteAll(DeleteCell(row, Head(names)), Tail(names))

\* oneHotEncoding returned: delete the excluded columns from every row
SmartFinish ==
    /\ op = "smartOneHotEncoding" /\ pc = "columns"
    /\ ci = Len(suitableColumns)
    /\ pc' = "returned"
    /\ encodedData' = [i \in RowIdx(encodedData) |->
                          DeleteAll(encodedData[i], excludedColumns)]
    /\ released' = smartResult(encodedData', encodingMaps, newColumns,
                               excludedColumns)
    /\ UNCHANGED <<op, table, columns, maxCardinality, ci, encodingMaps,
                   newColumns, excludedColumns, engineVars, uiVars>>

NextSmart == SmartStart \/ OneHotColumn \/ SmartFinish

SpecSmart == InitSmart /\ [][NextSmart]_vars

\* C16: with threshold T a categorical column is in excludedColumns exactly
\* when it has more than T distinct values, and an excluded column has no
\* indicator columns and is absent from every returned row, also when all
\* categorical columns are excluded
C16_ExcludedEntirely ==
    (op = "smartOneHotEncoding" /\ pc = "returned") =>
        \A c \in Range(columns) :
            LET distinct == {String(CellOf(table[i], c)) : i \in RowIdx(table)}
                excluded == c \in Range(released.excludedColumns)
            IN /\ excluded <=> Cardinality(distinct) > maxCardinality
               /\ excluded =>
                     /\ c \notin DOMAIN released.encodingMaps
                     /\ \A v \in distinct :
                           newColumnName(c, v) \notin Range(released.newColumns)
                     /\ \A i \in RowIdx(released.encodedData) :
                           c \notin DOMAIN released.encodedData[i]

\* ------------------------------------ minMaxNormalization, zScoreNormalization
\* isFinite(x)
isFinite(x) == x \notin {NaN, Infinity, -Infinity}

\* Number(v) for a cell
Number(v) ==
    IF v.t = "num" THEN v.n
    ELSE IF v.t = "null" THEN 0
    ELSE IF v.t = "undefined" THEN NaN
    ELSE IF v.s = "" THEN 0
    ELSE IF v.s = "0" THEN 0
    ELSE IF v.s = "5" THEN 5
    ELSE IF v.s = "Infinity" THEN Infinity
    ELSE IF v.s = "-Infinity" THEN -Infinity
    ELSE NaN

\* Number(row[column]) || 0
numberOrZero(v) == IF Number(v) = NaN THEN 0 ELSE Number(v)

\* data.map(row => Number(row[column]) || 0).filter(val => isFinite(val))
finiteValues(rows, c) ==
    SelectSeq([i \in RowIdx(rows) |-> numberOrZero(CellOf(rows[i], c))], isFinite)

SetMin(S) == CHOOSE x \in S : \A y \in S : x <= y

SumSquares(values) == SumSeq([i \in DOMAIN values |-> values[i] * values[i]])

\* n * n * variance of the values: n * sum(v^2) - (sum v)^2
scaledVariance(values) ==
    Len(values) * SumSquares(values) - SumSeq(values) * SumSeq(values)

\* {mean, std, min, max}, mean and std in thousandths
columnStatsOf(values) ==
    [mean |-> (SumSeq(values) * Milli) \div Len(values),
     std |-> (Sqrt(scaledVariance(values)) * Milli) \div Len(values),
     min |-> SetMin(Range(values)),
     max |-> SetMax(Range(values))]

defaultStats == [mean |-> 0, std |-> Milli, min |-> 0, max |-> 1]

\* (value - min) / (max - min) in thousandths, 0 when max - min === 0
minMaxOf(value, values) ==
    LET min == SetMin(Range(values))
        max == SetMax(Range(values))
    IN IF max - min = 0 THEN 0
       ELSE IF ~isFinite(value) THEN value
       ELSE ((value - min) * Milli) \div (max - min)

\* (value - mean) / std in thousandths, 0 when std === 0
zScoreOf(value, values) ==
    IF scaledVariance(values) = 0 THEN 0
    ELSE IF ~isFinite(value) THEN value
    ELSE ((Len(values) * value - SumSeq(values)) * Milli)
             \div Sqrt(scaledVariance(values))

NormOps == {"minMaxNormalization", "zScoreNormalization"}

NormCells == {Num(0), Num(2), Num(5), Num(Infinity), Num(NaN)}

InitNormalize ==
    /\ op \in NormOps /\ pc = "start"
    /\ \E n \in 1..MaxTableRows :
          table \in [1..n -> [{"x", "y"} -> NormCells]]
    /\ \A i \in RowIdx(table) : table[i]["y"] \in {Num(0), Num(5)}
    /\ columns \in {<<"x">>, <<"x", "y">>}
    /\ maxCardinality = 0 /\ ci = 0
    /\ encodedData = <<>> /\ encodingMaps = <<>> /\ newColumns = <<>>
    /\ excludedColumns = <<>>
    /\ released = NotReleased
    /\ EngineIdle
    /\ UiIdle

NormStart ==
    /\ \E name \in NormOps : PrepStart(name)
    /\ UNCHANGED <<op, table, columns, maxCardinality, excludedColumns,
                   released, engineVars, uiVars>>

\* one round of numericalColumns.forEach; encodedData holds normalizedData and
\* encodingMaps holds columnStats
NormColumn ==
    /\ op \in NormOps \cup {"performNormalization"} /\ pc = "columns"
    /\ ci < Len(columns)
    /\ LET column == columns[ci + 1]
           values == finiteValues(table, column)
       IN IF Len(values) = 0
          THEN /\ encodingMaps' = SetMap(encodingMaps, column, defaultStats)
               /\ UNCHANGED encodedData
          ELSE /\ encodingMaps' = SetMap(encodingMaps, column, columnStatsOf(values))
               /\ encodedData' =
                     [i \in RowIdx(encodedData) |->
                        LET value == numberOrZero(CellOf(encodedData[i], column))
                        IN SetCell(encodedData[i], column,
                              Num(IF op = "zScoreNormalization"
                                  THEN zScoreOf(value, values)
                                  ELSE minMaxOf(value, values)))]
    /\ ci' = ci + 1
    /\ UNCHANGED <<op, pc, table, columns, maxCardinality, newColumns,
                   excludedColumns, released, engineVars, uiVars>>

NormReturn ==
    /\ op \in NormOps \cup {"performNormalization"} /\ pc = "columns"
    /\ ci = Len(columns)
    /\ pc' = "returned"
    /\ released' = [status |-> "returned", normalizedData |-> encodedData,
                    columnStats |-> encodingMaps]
    /\ UNCHANGED <<op, prepVars, engineVars, uiVars>>

NextNormalize == NormStart \/ NormColumn \/ NormReturn

SpecNormalize == InitNormalize /\ [][NextNormalize]_vars

\* C17: for a column in which all rows hold the same value, both normalizers
\* write 0 into that column for every row, whatever the constant value is
C17_ConstantColumnIsZero ==
    (op \in NormOps /\ pc = "returned") =>
        \A c \in Range(columns) :
            (\A i \in RowIdx(table) : table[i][c] = table[1][c]) =>
                \A i \in RowIdx(table) : released.normalizedData[i][c] = Num(0)

\* --------------------------------------- findElbowPoint and findOptimalDBI
MaxReport == 4

\* what a recommendation returns: null or a k
NullK == [status |-> "returned", isNull |-> TRUE, k |-> 0]
KOf(n) == [status |-> "returned", isNull |-> FALSE, k |-> n]

\* (wcss[i-1] - wcss[i]) - (wcss[i] - wcss[i+1]), i counted from 1
secondDifference(w, i) == (w[i - 1] - w[i]) - (w[i] - w[i + 1])

\* the for loop of findElbowPoint from position i on
RECURSIVE elbowScan(_, _, _, _, _)
elbowScan(w, ks, i, maxDiff, elbowK) ==
    IF i > Len(w) - 1 THEN elbowK
    ELSE IF secondDifference(w, i) > maxDiff
         THEN elbowScan(w, ks, i + 1, secondDifference(w, i), ks[i])
         ELSE elbowScan(w, ks, i + 1, maxDiff, elbowK)

findElbowPoint(w, ks) ==
    IF Len(w) < 3 THEN NullK ELSE KOf(elbowScan(w, ks, 2, 0, ks[2]))

\* the for loop of findOptimalDBI from position i on
RECURSIVE dbiScan(_, _, _, _, _)
dbiScan(d, ks, i, minDBI, optimalK) ==
    IF i > Len(d) THEN optimalK
    ELSE IF d[i] > 0 /\ d[i] < minDBI
         THEN dbiScan(d, ks, i + 1, d[i], ks[i])
         ELSE dbiScan(d, ks, i + 1, minDBI, optimalK)

findOptimalDBI(d, ks) ==
    IF Len(d) < 1 THEN NullK ELSE KOf(dbiScan(d, ks, 1, Infinity, ks[1]))

\* currentExperiments.map(exp => exp.k).sort(...): ascending from first
ReportKValues(n, first) == [i \in 1..n |-> first + i - 1]

\* a report as runElbowMethod hands it over: kValues and one of the two
\* metric arrays, of the same length
InitRecommend ==
    /\ op \in {"findElbowPoint", "findOptimalDBI"} /\ pc = "start"
    /\ \E n \in 0..MaxReport :
          /\ \E first \in 1..2 : kValues = ReportKValues(n, first)
          /\ IF op = "findElbowPoint"
             THEN /\ wcssValues \in [1..n -> {0, 3, 5, 6}]
                  /\ dbiValues = <<>>
             ELSE /\ dbiValues \in [1..n -> {0, 350, 500}]
                  /\ wcssValues = <<>>
    /\ data = <<>> /\ numericalColumns = 0 /\ k = 0 /\ ki = 0
    /\ InitCommon
    /\ UiIdle

FindElbowPoint ==
    /\ op = "findElbowPoint" /\ pc = "start"
    /\ pc' = "returned"
    /\ released' = findElbowPoint(wcssValues, kValues)
    /\ UNCHANGED <<op, prepVars, engineVars, uiVars>>

FindOptimalDBI ==
    /\ op = "findOptimalDBI" /\ pc = "start"
    /\ pc' = "returned"
    /\ released' = findOptimalDBI(dbiValues, kValues)
    /\ UNCHANGED <<op, prepVars, engineVars, uiVars>>

NextRecommend == FindElbowPoint \/ FindOptimalDBI

SpecRecommend == InitRecommend /\ [][NextRecommend]_vars

\* C18: with at least 3 k-values findElbowPoint returns kValues[i] for an
\* interior index i that maximizes the second difference of WCSS over all
\* interior indices, for every WCSS sequence; with fewer than 3 it returns null
C18_ElbowIsMaximizer ==
    (op = "findElbowPoint" /\ pc = "returned") =>
        IF Len(wcssValues) < 3 THEN released = NullK
        ELSE /\ ~released.isNull
             /\ \E i \in 2..(Len(wcssValues) - 1) :
                   /\ released.k = kValues[i]
                   /\ \A j \in 2..(Len(wcssValues) - 1) :
                         secondDifference(wcssValues, i)
                            >= secondDifference(wcssValues, j)

\* C19: findOptimalDBI returns a k whose DBI is strictly positive and no
\* larger than any other strictly positive DBI of the report; a k whose DBI
\* is 0 is never returned
C19_OptimumIsPositiveMinimum ==
    (op = "findOptimalDBI" /\ pc = "returned" /\ ~released.isNull) =>
        \E i \in 1..Len(dbiValues) :
            /\ released.k = kValues[i]
            /\ dbiValues[i] > 0
            /\ \A j \in 1..Len(dbiValues) :
                  dbiValues[j] > 0 => dbiValues[i] <= dbiValues[j]

\* ------------------------------------------------------------------ App
MaxUploads == 2
MaxBatch == 2

\* the step from which ClusterExperiments / the results are rendered
configStep == IF showNormalizationStep THEN 5 ELSE 3
resultsStep == IF showNormalizationStep THEN 5 ELSE 4
elbowStep == IF showNormalizationStep THEN 6 ELSE 5

\* a call in flight is abandoned when the user uploads a file or navigates
\* back before it completes
Abandon(call) ==
    IF call.pc = "running" THEN [call EXCEPT !.abandoned = TRUE] ELSE call

InFlight(call) == IF call.pc = "running" THEN {call.data} ELSE {}

InitApp ==
    /\ op = "App" /\ pc = "idle"
    /\ UiIdle
    /\ released = NotReleased
    /\ PrepIdle
    /\ EngineIdle

\* handleFileUpload up to await parseFile; FileUpload is rendered at step 1
HandleFileUpload ==
    /\ op = "App" /\ activeStep = 1 /\ parsing = 0
    /\ \E file \in 1..MaxUploads :
          /\ file \notin {rawData} \cup InFlight(batch) \cup InFlight(sweep)
          /\ parsing' = file
    /\ isLoading' = TRUE
    /\ UNCHANGED <<rawData, processedData, normalizedData, showNormalizationStep,
                   activeStep, experimentResults, currentExperiments, elbowData,
                   batch, sweep, log>>
    /\ UNCHANGED <<op, pc, released, prepVars, engineVars, listVars>>

\* parseFile settled: the rest of handleFileUpload
HandleFileUploadDone ==
    /\ op = "App" /\ parsing # 0
    /\ \/ /\ rawData' = parsing
          /\ processedData' = 0
          /\ normalizedData' = 0
          /\ experimentResults' = <<>>
          /\ currentExperiments' = <<>>
          /\ elbowData' = NoElbowData
          /\ activeStep' = 2
          /\ showNormalizationStep' = FALSE
          /\ batch' = Abandon(batch)
          /\ sweep' = Abandon(sweep)
       \/ UNCHANGED <<rawData, processedData, normalizedData, experimentResults,
                      currentExperiments, elbowData, activeStep,
                      showNormalizationStep, batch, sweep>>
    /\ isLoading' = FALSE
    /\ parsing' = 0
    /\ UNCHANGED log
    /\ UNCHANGED <<op, pc, released, prepVars, engineVars, listVars>>

\* handleOneHotEncoding with its awaits taken as one step: the encoded data,
\* then either the normalization step on display or performNormalizationStep
HandleOneHotEncoding ==
    /\ op = "App" /\ activeStep = 2 /\ rawData # 0
    /\ processedData' = rawData
    /\ \E needsNormalization \in BOOLEAN :
          IF needsNormalization
          THEN /\ showNormalizationStep' = TRUE
               /\ activeStep' = 3
               /\ UNCHANGED normalizedData
          ELSE /\ normalizedData' = rawData
               /\ activeStep' = 4
               /\ UNCHANGED showNormalizationStep
    /\ isLoading' = FALSE
    /\ UNCHANGED <<rawData, experimentResults, currentExperiments, elbowData,
                   parsing, batch, sweep, log>>
    /\ UNCHANGED <<op, pc, released, prepVars, engineVars, listVars>>

\* handleNormalization, from the button of step 3
HandleNormalization ==
    /\ op = "App" /\ activeStep = 3 /\ processedData # 0 /\ showNormalizationStep
    /\ normalizedData' = processedData
    /\ activeStep' = 4
    /\ isLoading' = FALSE
    /\ UNCHANGED <<rawData, processedData, showNormalizationStep,
                   experimentResults, currentExperiments, elbowData, parsing,
                   batch, sweep, log>>
    /\ UNCHANGED <<op, pc, released, prepVars, engineVars, listVars>>

\* goToNextStep from step 4 (steps 2 and 3 are the two handlers above)
GoToNextStep ==
    /\ op = "App" /\ activeStep = 4 /\ normalizedData # 0 /\ showNormalizationStep
    /\ activeStep' = 5
    /\ UNCHANGED <<rawData, processedData, normalizedData, showNormalizationStep,
                   isLoading, experimentResults, currentExperiments, elbowData,
                   parsing, batch, sweep, log>>
    /\ UNCHANGED <<op, pc, released, prepVars, engineVars, listVars>>

\* goToPreviousStep, from the button of any data preview on display
GoToPreviousStep ==
    /\ op = "App" /\ activeStep >= 2 /\ rawData # 0
    /\ activeStep > 1
    /\ activeStep' = activeStep - 1
    /\ batch' = Abandon(batch)
    /\ sweep' = Abandon(sweep)
    /\ UNCHANGED <<rawData, processedData, normalizedData, showNormalizationStep,
                   isLoading, experimentResults, currentExperiments, elbowData,
                   parsing, log>>
    /\ UNCHANGED <<op, pc, released, prepVars, engineVars, listVars>>

\* the experiment lists handed to runClusteringExperiments: k per experiment
BatchLists == UNION {[1..n -> {2, 3}] : n \in 0..MaxBatch}

\* runClusteringExperiments up to the for loop; the run button is rendered
\* with ClusterExperiments and disabled while isLoading
RunClusteringExperiments ==
    /\ op = "App" /\ activeStep >= configStep /\ normalizedData # 0
    /\ ~isLoading /\ batch.pc = "idle"
    /\ \E list \in BatchLists :
          /\ currentExperiments' = list
          /\ batch' = [pc |-> "running", data |-> normalizedData,
                       experiments |-> list, i |-> 0, results |-> <<>>,
                       abandoned |-> FALSE]
    /\ isLoading' = TRUE
    /\ experimentResults' = <<>>
    /\ elbowData' = NoElbowData
    /\ log' = <<>>
    /\ UNCHANGED <<rawData, processedData, normalizedData, showNormalizationStep,
                   activeStep, parsing, sweep>>
    /\ UNCHANGED <<op, pc, released, prepVars, engineVars, listVars>>

nextIndexOrAbort(b, ok) == IF ok THEN b.i + 1 ELSE Len(b.experiments)

\* for (let i = 0; i < experiments.length; i++): the catch inside the loop
\* body leaves i alone
nextIndex(b, ok) == b.i + 1

\* one round of the for loop: performKMeansClustering returns or throws
ExperimentStep ==
    /\ op = "App" /\ batch.pc = "running"
    /\ batch.i < Len(batch.experiments)
    /\ \E ok \in BOOLEAN :
          /\ batch' = [batch EXCEPT
                !.i = nextIndex(batch, ok),
                !.results = IF ok
                            THEN Append(@, [k |-> batch.experiments[batch.i + 1],
                                            index |-> batch.i + 1,
                                            data |-> batch.data])
                            ELSE @]
          /\ log' = Append(log, [index |-> batch.i + 1, ok |-> ok])
    /\ UNCHANGED <<rawData, processedData, normalizedData, showNormalizationStep,
                   activeStep, isLoading, experimentResults, currentExperiments,
                   elbowData, parsing, sweep>>
    /\ UNCHANGED <<op, pc, released, prepVars, engineVars, listVars>>

\* after the loop: throw when nothing succeeded, else commit; then finally
BatchFinish ==
    /\ op = "App" /\ batch.pc = "running"
    /\ batch.i >= Len(batch.experiments)
    /\ IF Len(batch.results) = 0
       THEN UNCHANGED <<experimentResults, activeStep>>
       ELSE /\ experimentResults' = batch.results
            /\ activeStep' = 5
    /\ isLoading' = FALSE
    /\ batch' = NoCall
    /\ UNCHANGED <<rawData, processedData, normalizedData, showNormalizationStep,
                   currentExperiments, elbowData, parsing, sweep, log>>
    /\ UNCHANGED <<op, pc, released, prepVars, engineVars, listVars>>

\* runElbowMethod up to its awaits; the button is rendered with the results
RunElbowMethod ==
    /\ op = "App" /\ activeStep >= resultsStep /\ Len(experimentResults) > 0
    /\ ~isLoading /\ sweep.pc = "idle"
    /\ normalizedData # 0 /\ Len(currentExperiments) > 0
    /\ isLoading' = TRUE
    /\ sweep' = [pc |-> "running", data |-> normalizedData,
                 kValues |-> SortAsc(currentExperiments), abandoned |-> FALSE]
    /\ UNCHANGED <<rawData, processedData, normalizedData, showNormalizationStep,
                   activeStep, experimentResults, currentExperiments, elbowData,
                   parsing, batch, log>>
    /\ UNCHANGED <<op, pc, released, prepVars, engineVars, listVars>>

\* calculateElbowMethodFromExperiments settled: commit, or the catch block
ElbowFinish ==
    /\ op = "App" /\ sweep.pc = "running"
    /\ \/ /\ elbowData' = [isNull |-> FALSE, data |-> sweep.data,
                            kValues |-> sweep.kValues]
          /\ activeStep' = 6
       \/ UNCHANGED <<elbowData, activeStep>>
    /\ isLoading' = FALSE
    /\ sweep' = NoCall
    /\ UNCHANGED <<rawData, processedData, normalizedData, showNormalizationStep,
                   experimentResults, currentExperiments, parsing, batch, log>>
    /\ UNCHANGED <<op, pc, released, prepVars, engineVars, listVars>>

elbowOnDisplay == activeStep >= elbowStep /\ elbowData # NoElbowData /\ ~isLoading

\* onBack of ElbowAnalysis
ElbowBack ==
    /\ op = "App" /\ elbowOnDisplay
    /\ activeStep' = IF showNormalizationStep THEN 5 ELSE 4
    /\ batch' = Abandon(batch)
    /\ sweep' = Abandon(sweep)
    /\ UNCHANGED <<rawData, processedData, normalizedData, showNormalizationStep,
                   isLoading, experimentResults, currentExperiments, elbowData,
                   parsing, log>>
    /\ UNCHANGED <<op, pc, released, prepVars, engineVars, listVars>>

\* handleReset, the onReset of ElbowAnalysis
HandleReset ==
    /\ op = "App" /\ elbowOnDisplay
    /\ rawData' = 0 /\ processedData' = 0 /\ normalizedData' = 0
    /\ experimentResults' = <<>> /\ currentExperiments' = <<>>
    /\ elbowData' = NoElbowData
    /\ activeStep' = 1
    /\ isLoading' = FALSE
    /\ showNormalizationStep' = FALSE
    /\ batch' = Abandon(batch)
    /\ sweep' = Abandon(sweep)
    /\ UNCHANGED <<parsing, log>>
    /\ UNCHANGED <<op, pc, released, prepVars, engineVars, listVars>>

NextApp ==
    \/ HandleFileUpload \/ HandleFileUploadDone
    \/ HandleOneHotEncoding \/ HandleNormalization
    \/ GoToNextStep \/ GoToPreviousStep
    \/ RunClusteringExperiments \/ ExperimentStep \/ BatchFinish
    \/ RunElbowMethod \/ ElbowFinish
    \/ ElbowBack \/ HandleReset

SpecApp == InitApp /\ [][NextApp]_vars

batchCompletes == batch.pc = "running" /\ batch'.pc = "idle"
sweepCompletes == sweep.pc = "running" /\ sweep'.pc = "idle"

\* the experiments of the list that succeeded, in list order
RECURSIVE successes(_, _, _)
successes(b, entries, j) ==
    IF j > Len(entries) THEN <<>>
    ELSE (IF entries[j].ok
          THEN <<[k |-> b.experiments[entries[j].index],
                  index |-> entries[j].index, data |-> b.data]>>
          ELSE <<>>) \o successes(b, entries, j + 1)

\* C21: the experiments of a batch run one at a time in list order, a failing
\* one is skipped and the later ones still run; at the end the committed
\* experimentResults are exactly the successful experiments in list order, or,
\* when none succeeded, nothing is committed and activeStep stays; isLoading
\* is false once the batch has finished
C21_BatchResilient ==
    [][batchCompletes =>
          /\ Len(log) = Len(batch.experiments)
          /\ \A j \in 1..Len(log) : log[j].index = j
          /\ isLoading' = FALSE
          /\ IF \E j \in 1..Len(log) : log[j].ok
             THEN experimentResults' = successes(batch, log, 1)
             ELSE UNCHANGED <<experimentResults, activeStep>>]_vars

\* a finished batch in which the first experiment failed and a later one was
\* committed
C21_Witness ==
    /\ op = "App" /\ batch.pc = "idle" /\ ~isLoading
    /\ Len(log) = 2 /\ ~log[1].ok /\ log[2].ok
    /\ Len(experimentResults) = 1 /\ experimentResults[1].index = 2
    /\ activeStep = 5

\* C22: the completion of a batch or sweep that was abandoned (a file was
\* uploaded or the user navigated back while it was in flight) writes neither
\* experimentResults nor elbowData and does not change activeStep
C22_StaleResultDiscarded ==
    [][/\ (batchCompletes /\ batch.abandoned) =>
              UNCHANGED <<experimentResults, elbowData, activeStep>>
       /\ (sweepCompletes /\ sweep.abandoned) =>
              UNCHANGED <<experimentResults, elbowData, activeStep>>]_vars

\* ---------------------------------------------------- ClusterExperiments
MaxRowCount == 18
MaxEdits == 1

\* maxK={Math.min(10, Math.floor(normalizedData.data.length / 3))}
maxK == Min2(10, rowCount \div 3)

Experiment(id, kk, name) == [id |-> id, k |-> kk, name |-> name]

\* the useState initial value
defaultExperiments ==
    [n \in 1..5 |-> Experiment(NatToString(n), n + 1,
                               "Eksperimen " \o NatToString(n))]

\* parseInt(e.target.value) for what can be typed into the number input
TypedK == {3, NaN}

InitExperiments ==
    /\ op = "ClusterExperiments" /\ pc = "idle"
    /\ rawData = 0 /\ processedData = 0 /\ normalizedData = 0
    /\ showNormalizationStep = FALSE /\ activeStep = 1 /\ isLoading = FALSE
    /\ experimentResults = <<>> /\ currentExperiments = <<>>
    /\ elbowData = NoElbowData /\ parsing = 0
    /\ batch = NoCall /\ sweep = NoCall /\ log = <<>>
    /\ experiments = defaultExperiments
    /\ rowCount \in {r \in 0..MaxRowCount : r % 3 = 0}
    /\ handed = <<>>
    /\ edits = 0
    /\ released = NotReleased
    /\ PrepIdle
    /\ EngineIdle

\* addExperiment; its button is disabled at maxK experiments and while loading
addExperiment ==
    /\ op = "ClusterExperiments"
    /\ ~(Len(experiments) >= maxK \/ isLoading)
    /\ experiments' = Append(experiments,
          Experiment(NatToString(Len(experiments) + 1),
                     Min2(Len(experiments) + 2, maxK),
                     "Eksperimen " \o NatToString(Len(experiments) + 1)))
    /\ UNCHANGED <<rowCount, handed, edits>>
    /\ UNCHANGED <<op, pc, released, prepVars, engineVars, appVars>>

\* removeExperiment(id); its button is rendered with more than 5 experiments
removeExperiment ==
    /\ op = "ClusterExperiments"
    /\ Len(experiments) > 5 /\ ~isLoading
    /\ \E x \in 1..Len(experiments) :
          experiments' = IF Len(experiments) > 5
                         THEN SelectSeq(experiments,
                                        LAMBDA e : e.id # experiments[x].id)
                         ELSE experiments
    /\ UNCHANGED <<rowCount, handed, edits>>
    /\ UNCHANGED <<op, pc, released, prepVars, engineVars, appVars>>

\* updateExperiment(id, field, value) from the name and K inputs
updateExperiment ==
    /\ op = "ClusterExperiments"
    /\ ~isLoading /\ edits < MaxEdits
    /\ \E x \in 1..Len(experiments) :
          \/ \E value \in TypedK :
                experiments' = [y \in 1..Len(experiments) |->
                    IF experiments[y].id = experiments[x].id
                    THEN [experiments[y] EXCEPT !.k = value]
                    ELSE experiments[y]]
          \/ experiments' = [y \in 1..Len(experiments) |->
                    IF experiments[y].id = experiments[x].id
                    THEN [experiments[y] EXCEPT !.name = "x"]
                    ELSE experiments[y]]
    /\ edits' = edits + 1
    /\ UNCHANGED <<rowCount, handed>>
    /\ UNCHANGED <<op, pc, released, prepVars, engineVars, appVars>>

\* handleRunExperiments; its button is disabled below 5 experiments. The App
\* sets isLoading, which disables the component; a run does not change the
\* list, so the lists handed over after a run are those handed over here
handleRunExperiments ==
    /\ op = "ClusterExperiments"
    /\ ~(isLoading \/ Len(experiments) < 5)
    /\ handed' = experiments
    /\ isLoading' = TRUE
    /\ UNCHANGED <<experiments, rowCount, edits>>
    /\ UNCHANGED <<rawData, processedData, normalizedData, showNormalizationStep,
                   activeStep, experimentResults, currentExperiments, elbowData,
                   parsing, batch, sweep, log>>
    /\ UNCHANGED <<op, pc, released, prepVars, engineVars>>

NextExperiments ==
    addExperiment \/ removeExperiment \/ updateExperiment \/ handleRunExperiments

SpecExperiments == InitExperiments /\ [][NextExperiments]_vars

\* C23: after any sequence of add, remove and update actions the list holds
\* at least 5 experiments
C23_AtLeastFiveExperiments ==
    op = "ClusterExperiments" => Len(experiments) >= 5

\* C24: every experiment handed to onRunExperiments has an integer k with
\* 2 <= k <= maxK, maxK = min(10, floor(rowCount / 3))
C24_HandedKInRange ==
    op = "ClusterExperiments" =>
        \A x \in 1..Len(handed) :
            /\ handed[x].k # NaN
            /\ 2 <= handed[x].k /\ handed[x].k <= maxK

\* C30: after any sequence of add and remove actions the ids of the
\* experiments in the list are pairwise distinct
C30_IdsDistinct ==
    op = "ClusterExperiments" =>
        \A x \in 1..Len(experiments) : \A y \in 1..Len(experiments) :
            x # y => experiments[x].id # experiments[y].id

\* C25: for k >= 2 the returned DBI is the sum over the k clusters of the
\* maximum of (S_i + S_j) / M_ij over the pairs with non-coincident centroids,
\* divided by k, a cluster without a valid pair contributing 0; in particular
\* the DBI is 0 when all k centroids coincide
C25_DbiIsMeanOfMaxRatios ==
    (op = "cluster" /\ pc = "returned" /\ k >= 2) =>
        released.daviesBouldinIndex =
            SumSeq([i \in 1..k |->
                      maxRatio(features, released.clusters, released.centroids, i)])
            \div k

\* ------------------------------------------------ oneHotEncoding on its own
OneHotRows ==
    {[color |-> c, size |-> z, color_A |-> Num(5)] :
        c \in {Str("A"), Str("A B"), Str("A_B"), Num(0), Null},
        z \in {Str("A"), Str("B")}}

InitOneHot ==
    /\ op = "oneHotEncoding" /\ pc = "start"
    /\ \E n \in 1..MaxTableRows : table \in [1..n -> OneHotRows]
    /\ columns \in {<<"color">>, <<"size">>, <<"color", "size">>}
    /\ maxCardinality = 0 /\ ci = 0
    /\ encodedData = <<>> /\ encodingMaps = <<>> /\ newColumns = <<>>
    /\ excludedColumns = <<>>
    /\ released = NotReleased
    /\ EngineIdle
    /\ UiIdle

OneHotStart ==
    /\ PrepStart("oneHotEncoding")
    /\ UNCHANGED <<op, table, columns, maxCardinality, excludedColumns,
                   released, engineVars, uiVars>>

OneHotReturn ==
    /\ op = "oneHotEncoding" /\ pc = "columns"
    /\ ci = Len(columns)
    /\ pc' = "returned"
    /\ released' = [status |-> "returned", encodedData |-> encodedData,
                    encodingMaps |-> encodingMaps, newColumns |-> newColumns]
    /\ UNCHANGED <<op, prepVars, engineVars, uiVars>>

NextOneHot == OneHotStart \/ OneHotColumn \/ OneHotReturn

SpecOneHot == InitOneHot /\ [][NextOneHot]_vars

\* C26: for every encoded column with n distinct values the result has exactly
\* n distinct indicator columns for it, every row holds 1 in the indicator of
\* its own value and 0 in the other n - 1, no pre-existing column of the
\* dataset is overwritten, and the original column is absent from every row
C26_OneIndicatorPerValue ==
    (op = "oneHotEncoding" /\ pc = "returned") =>
        \A c \in Range(columns) :
            LET str(i) == String(CellOf(table[i], c))
                distinct == {str(i) : i \in RowIdx(table)}
                map == released.encodingMaps[c]
                indicators == {map[v] : v \in DOMAIN map}
                row(i) == released.encodedData[i]
            IN /\ DOMAIN map = distinct
               /\ Cardinality(indicators) = Cardinality(distinct)
               /\ \A i \in RowIdx(table) :
                     /\ c \notin DOMAIN row(i)
                     /\ \A name \in indicators :
                           /\ name \in DOMAIN row(i)
                           /\ row(i)[name] =
                                 Num(IF name = map[str(i)] THEN 1 ELSE 0)
                     /\ \A x \in DOMAIN table[i] \ Range(columns) :
                           x \in DOMAIN row(i) /\ row(i)[x] = table[i][x]

\* C27: when a failing k gets a fallback and the report already has an entry,
\* the substituted WCSS is the preceding WCSS scaled by a factor in [0.6, 0.9),
\* hence no larger than it; the total-variance estimate is used only for the
\* first entry of the report
C27_FallbackShrinksPrevious ==
    [][(/\ op = "elbow" /\ pc = "attempts" /\ attempt = maxAttempts
        /\ retryFailed(bestResult)
        /\ Len(wcssValues') = Len(wcssValues) + 1) =>
           LET new == wcssValues'[Len(wcssValues')]
           IN IF wcssValues # <<>>
              THEN LET prev == wcssValues[Len(wcssValues)]
                   IN /\ new <= prev
                      /\ MulMilli(prev, 600) <= new
                      /\ new <= MulMilli(prev, 900)
              ELSE new = totalVariance(features) \div k]_vars

\* ------------------------------------------------- ElbowAnalysis component
MaxDisplay == 3

\* dbiValues[index] || 0
dbiOrZero(d, i) == IF i > Len(d) \/ d[i] = NaN THEN 0 ELSE d[i]

\* one row of the table and one point of the charts per WCSS entry
chartData(w, d) ==
    [i \in 1..Len(w) |-> [k |-> i, wcss |-> w[i], dbi |-> dbiOrZero(d, i)]]

\* the for loop of calculateElbowPoint from position i on (i counted from 1,
\* so that the code's i + 1 is i here)
RECURSIVE elbowPointScan(_, _, _, _)
elbowPointScan(values, i, maxDiff, elbowK) ==
    IF i > Len(values) - 1 THEN elbowK
    ELSE IF secondDifference(values, i) > maxDiff
         THEN elbowPointScan(values, i + 1, secondDifference(values, i), i)
         ELSE elbowPointScan(values, i + 1, maxDiff, elbowK)

calculateElbowPoint(values) ==
    IF Len(values) < 3 THEN NullK ELSE KOf(elbowPointScan(values, 2, 0, 2))

\* the for loop of the component's findOptimalDBI, which starts at the second
\* entry
RECURSIVE optimalDBIScan(_, _, _, _)
optimalDBIScan(values, i, minDBI, optimalK) ==
    IF i > Len(values) THEN optimalK
    ELSE IF values[i] > 0 /\ values[i] < minDBI
         THEN optimalDBIScan(values, i + 1, values[i], i)
         ELSE optimalDBIScan(values, i + 1, minDBI, optimalK)

componentFindOptimalDBI(values) ==
    IF Len(values) < 2 THEN NullK
    ELSE KOf(optimalDBIScan(values, 2, Infinity, 2))

\* kValues of a report: ascending, starting at first, stride apart
SteppedKValues(n, first, stride) ==
    [i \in 1..n |-> first + (i - 1) * stride]

\* an elbow report as App passes it to the component
InitAnalysis ==
    /\ op = "ElbowAnalysis" /\ pc = "start"
    /\ \E n \in 0..MaxDisplay :
          /\ \E first \in 1..2, stride \in 1..2 :
                kValues = SteppedKValues(n, first, stride)
          /\ wcssValues \in [1..n -> {0, 3, 6}]
          /\ dbiValues \in [1..n -> {0, 350, 500}]
    /\ data = <<>> /\ numericalColumns = 0 /\ k = 0 /\ ki = 0
    /\ InitCommon
    /\ UiIdle

\* one render of the component
ElbowAnalysis ==
    /\ op = "ElbowAnalysis" /\ pc = "start"
    /\ pc' = "returned"
    /\ released' = [status |-> "returned",
                    chartData |-> chartData(wcssValues, dbiValues),
                    suggestedWCSSK |-> calculateElbowPoint(wcssValues),
                    suggestedDBIK |-> componentFindOptimalDBI(dbiValues)]
    /\ UNCHANGED <<op, prepVars, engineVars, uiVars>>

NextAnalysis == ElbowAnalysis

SpecAnalysis == InitAnalysis /\ [][NextAnalysis]_vars

\* C28: the recommendations the ElbowAnalysis component displays and the k of
\* each table row are the report's k values: the same as App's findElbowPoint
\* and findOptimalDBI return for the report, for every kValues list
C28_DisplayedKFromReport ==
    (op = "ElbowAnalysis" /\ pc = "returned") =>
        /\ released.suggestedWCSSK = findElbowPoint(wcssValues, kValues)
        /\ released.suggestedDBIK = findOptimalDBI(dbiValues, kValues)
        /\ \A i \in 1..Len(kValues) : released.chartData[i].k = kValues[i]

\* --------------------------------------------------- performNormalization
MaxTailRows == 2

\* numericalData.data.slice(0, 10)
sampleRows == 10

sampleValues(rows) == SubSeq(rows, 1, Min2(sampleRows, Len(rows)))

\* val === 0 || val === 1 || isNaN(val) for every numerical column of every
\* sampled row
isBinaryData(rows, cols) ==
    \A i \in RowIdx(sampleValues(rows)) : \A c \in Range(cols) :
        Number(CellOf(rows[i], c)) \in {0, 1, NaN}

\* the cells of the numerical columns written in thousandths, the unit of the
\* normalizers' output; the values themselves are the input's
inThousandths(rows, cols) ==
    [i \in RowIdx(rows) |->
       [x \in DOMAIN rows[i] |->
          IF x \in Range(cols) /\ rows[i][x].t = "num" /\ isFinite(rows[i][x].n)
          THEN Num(rows[i][x].n * Milli)
          ELSE rows[i][x]]]

PerformCells == {Num(0), Num(1), Num(5), Num(Infinity), Num(NaN)}

\* a dataset of lead equal rows followed by up to MaxTailRows arbitrary ones
PerformTables ==
    {[i \in 1..lead |-> [x |-> v, y |-> Num(0)]] \o tail :
       lead \in {0, sampleRows}, v \in {Num(0), Num(1)},
       tail \in UNION {[1..n -> [{"x", "y"} -> PerformCells]] :
                          n \in 1..MaxTailRows}}

InitPerform ==
    /\ op = "performNormalization" /\ pc = "start"
    /\ table \in PerformTables
    /\ \A i \in RowIdx(table) : table[i]["y"] \in {Num(0), Num(1)}
    /\ columns \in {<<"x">>, <<"x", "y">>}
    /\ maxCardinality = 0 /\ ci = 0
    /\ encodedData = <<>> /\ encodingMaps = <<>> /\ newColumns = <<>>
    /\ excludedColumns = <<>>
    /\ released = NotReleased
    /\ EngineIdle
    /\ UiIdle

\* the sample looks binary: the dataset is returned as it is
PerformSkip ==
    /\ op = "performNormalization" /\ pc = "start"
    /\ isBinaryData(table, columns)
    /\ pc' = "returned"
    /\ released' = [status |-> "returned",
                    normalizedData |-> inThousandths(table, columns),
                    columnStats |-> <<>>]
    /\ UNCHANGED <<op, prepVars, engineVars, uiVars>>

\* otherwise minMaxNormalization runs on the dataset
PerformStart ==
    /\ ~isBinaryData(table, columns)
    /\ PrepStart("performNormalization")
    /\ UNCHANGED <<op, table, columns, maxCardinality, excludedColumns,
                   released, engineVars, uiVars>>

NextPerform == PerformSkip \/ PerformStart \/ NormColumn \/ NormReturn

SpecPerform == InitPerform /\ [][NextPerform]_vars

\* C29: after performNormalization returns, every value of every numerical
\* column of the returned dataset lies in [0, 1], for every input dataset
C29_NormalizedInUnitInterval ==
    (op = "performNormalization" /\ pc = "returned") =>
        \A i \in RowIdx(released.normalizedData) : \A c \in Range(columns) :
            /\ released.normalizedData[i][c].n >= 0
            /\ released.normalizedData[i][c].n <= Milli

\* C11: the report has wcss and dbi arrays of equal length with exactly one
\* entry per distinct k of kValues, in ascending order of k
C11_OneEntryPerDistinctK ==
    ElbowReturned =>
        /\ Len(released.wcss) = Len(released.dbi)
        /\ Len(released.wcss) = Cardinality(Range(kValues))
        /\ \A i \in 1..Len(released.wcss) : \A j \in 1..Len(released.wcss) :
              i < j => sortedKValues[i] < sortedKValues[j]

\* C12: once input validation has passed the sweep never throws; a failing k
\* gets a fallback pair and the sweep goes on, so the report under construction
\* has an entry for every k processed and the returned one for every k
C12_SweepNeverAborts ==
    (op = "elbow" /\ ~elbowInputInvalid) =>
        /\ pc # "thrown" /\ released.status # "thrown"
        /\ pc = "attempts" =>
              (Len(wcssValues) = ki - 1 /\ Len(dbiValues) = ki - 1)
        /\ pc = "returned" =>
              (Len(released.wcss) = Len(kValues) /\ Len(released.dbi) = Len(kValues))

\* the run for the first k (k = 1) failed, its entry is a fallback (a repaired
\* k = 1 result has DBI 0), and the sweep went on to a second k
C12_Witness ==
    /\ ElbowReturned
    /\ Len(released.wcss) = 2
    /\ sortedKValues[1] = 1 /\ released.dbi[1] # 0
    /\ sortedKValues[2] = 2 /\ Len(data) >= 2

\* C13: with an empty dataset, an empty column list, k < 1 or k > rowCount,
\* performKMeansClustering throws a validation error and no K-Means attempt is
\* ever started (the optimizer is not invoked)
C13_ValidationBeforeAttempts ==
    (op = "cluster" /\ (Len(data) = 0 \/ numericalColumns = 0
                           \/ k < 1 \/ k > Len(data))) =>
        /\ pc \in {"start", "thrown"}
        /\ attempt = 0 /\ bestResult = NoResult
        /\ pc = "thrown" => released = Thrown("validation")

\* a validation error for an empty column list on rows that exist, k in range
C13_Witness ==
    /\ op = "cluster" /\ pc = "thrown" /\ released = Thrown("validation")
    /\ numericalColumns = 0 /\ Len(data) >= 2 /\ k = 2 /\ attempt = 0

\* C14: whenever k exceeds the number of distinct feature vectors extracted
\* from the dataset, performKMeansClustering throws a validation error and no
\* K-Means attempt is ever started, even if k <= rowCount
C14_DistinctVectorsValidated ==
    (op = "cluster" /\ k > Cardinality(Range(features))) =>
        /\ pc \in {"start", "thrown"}
        /\ attempt = 0
        /\ pc = "thrown" => released = Thrown("validation")

\* C20: the engine is reproducible: for the same inputs and the same optimizer
\* outcomes no step can produce two different values, i.e. nothing released
\* depends on a Math.random() draw
C20_Reproducible ==
    (op \in {"elbow", "cluster"} /\ pc = "returned") => spread = 1

\* ------------------------------------------------- properties of a released result
Returned == pc = "returned" /\ released.status = "returned"

\* C1: for n >= 1 rows, a non-empty column list and 2 <= k <= min(10, n div 3),
\* a returned result has exactly n assignments and exactly k centroids,
\* whatever the optimizer returned on the attempts
C1_Lengths ==
    (Returned /\ Len(data) >= 1 /\ numericalColumns >= 1
       /\ 2 <= k /\ k <= Min2(10, Len(data) \div 3))
    => (Len(released.clusters) = Len(data) /\ Len(released.centroids) = k)

\* the accepted attempt had an assignment array and a centroid set of the wrong
\* length, and the result was released for n = 6, k = 2
C1_Witness ==
    /\ Returned /\ 2 <= k /\ k <= Min2(10, Len(data) \div 3)
    /\ Len(bestResult.clusters) # Len(data)
    /\ Len(bestResult.centroids) # k

\* C2: the cluster sizes of a returned result sum to the number of rows
C2_SizesSumToRows ==
    Returned => SumSeq(released.clusterSizes) = Len(data)

\* C3: no returned result has an empty cluster: every cluster size is >= 1
\* (1 <= k <= rowCount), also when the assignments were rebuilt round-robin
C3_NoEmptyCluster ==
    Returned => (1 <= k /\ k <= Len(data)
                 /\ \A c \in 1..k : released.clusterSizes[c] >= 1)

\* the repair pass replaced a wrong-length assignment array by i mod k
C3_Witness ==
    /\ Returned /\ k >= 2
    /\ Len(bestResult.clusters) # Len(data)
    /\ released.clusters = RoundRobin(Len(data), k)

\* C4: every assignment of a returned result, in clusters and in the cluster
\* field of the returned rows, is an index in [0, k)
C4_AssignmentsInRange ==
    Returned => \A i \in 1..Len(released.clusters) :
                    /\ released.clusters[i] \in 0..(k - 1)
                    /\ released.data[i] \in 0..(k - 1)

\* C6: every centroid of a returned result has as many components as the
\* feature vectors
C6_CentroidDimensions ==
    Returned => \A c \in 1..Len(released.centroids) :
                    Len(released.centroids[c].vals) = numericalColumns

====
